---- MODULE Spec2Model ----
(***************************************************************************)
(* The conversation driver of google-gemini-rs (src/src/client/mod.rs):    *)
(* the Client owns the request (history, declared tools, configuration)    *)
(* and the registered MCP collaborators; a send appends a user turn, posts *)
(* the request, consolidates the streamed fragments, dispatches the        *)
(* function calls of the batch and posts again until a batch without       *)
(* function calls arrives.                                                 *)
(***************************************************************************)
EXTENDS Integers, Sequences, FiniteSets, TLC

(***************************************************************************)
(* Bounds of the exploration.                                              *)
(***************************************************************************)
\* send operations of a caller that sends repeatedly
MaxSends == 2
\* fragments + candidates + parts + content items the transport and the
\* collaborators deliver in one behaviour, all batches together
MaxWeight == 7
\* the same, for a caller that also configures the client
MaxConfigWeight == 3
\* collaborators handed to one with_tools_client call
MaxCollabs == 2
\* configuration calls of one caller (with_defaults, with_safety,
\* with_instructions, with_options, with_tools_client)
MaxConfigOps == 1
\* content items one call_tool returns
MaxItems == 2
\* requests one send issues; the weight keeps every send below it
MaxPosts == 4
\* the weight of the caller whose sends are followed to their return
MaxLiveWeight == 5
\* ... while it sends to a service asking for tools
MaxToolWeight == 6
\* ... and while it registers twice before that
MaxLookupWeight == 4
\* ... and while its caller squashes what a send returned
MaxTextWeight == 6

(***************************************************************************)
(* Option<T>                                                               *)
(***************************************************************************)
None == [some |-> FALSE]
Some(v) == [some |-> TRUE, v |-> v]

(***************************************************************************)
(* Message model: src/src/google/common.rs                                 *)
(***************************************************************************)
User == "user"
Model == "model"
Role == {User, Model}

Text(txt) == [kind |-> "Text", text |-> txt]
InlineData(blob) == [kind |-> "InlineData", blob |-> blob]
FileDataPart(data) == [kind |-> "FileData", data |-> data]
FunctionCall(id, name, args) ==
    [kind |-> "FunctionCall", id |-> id, name |-> name, args |-> args]
FunctionResponse(id, name, response) ==
    [kind |-> "FunctionResponse", id |-> id, name |-> name, response |-> response]

Thought(flag) == [kind |-> "Thought", thought |-> flag]
ExecutableCode(language, code) ==
    [kind |-> "ExecutableCode", language |-> language, code |-> code]
CodeExecutionResult(outcome, output) ==
    [kind |-> "CodeExecutionResult", outcome |-> outcome, output |-> output]

Content(parts, role) == [parts |-> parts, role |-> role]

(***************************************************************************)
(* Sequence helpers                                                        *)
(***************************************************************************)
IsPrefix(s, t) == Len(s) <= Len(t) /\ SubSeq(t, 1, Len(s)) = s

\* what t holds beyond the length of s
Suffix(s, t) == SubSeq(t, Len(s) + 1, Len(t))

RECURSIVE SeqsUpTo(_, _)
SeqsUpTo(S, n) ==
    IF n <= 0 THEN {<<>>}
    ELSE LET R == SeqsUpTo(S, n - 1)
         IN  R \cup {Append(s, x) : s \in {r \in R : Len(r) = n - 1}, x \in S}

(***************************************************************************)
(* Results and errors: src/src/client/mod.rs, enum Error                   *)
(***************************************************************************)
NoResult == [status |-> "none"]
\* Ok(self) of a configuration operation
Configured == [status |-> "self"]
Ok(v) == [status |-> "ok", v |-> v]
Err(e) == [status |-> "err", e |-> e]

Request(code, message) == [kind |-> "Request", code |-> code, message |-> message]
Reqwest == [kind |-> "Reqwest"]
MpcSdk == [kind |-> "MpcSdk"]
NotFound(what, name) == [kind |-> "NotFound", what |-> what, name |-> name]
UnsupportedConfig == [kind |-> "UnsupportedConfig"]

(***************************************************************************)
(* serde_json::Value, as far as the error object of a fragment needs it    *)
(***************************************************************************)
JInt(n) == [t |-> "int", v |-> n]
JStr(s) == [t |-> "str", v |-> s]
JMap(m) == [t |-> "map", v |-> m]

\* impl From<&Value> for Error
ErrorFrom(value) ==
    LET isMap == value.t = "map"
        code == IF isMap /\ "code" \in DOMAIN value.v
                THEN (IF value.v["code"].t = "int" THEN value.v["code"].v ELSE 0)
                ELSE 0
        message == IF isMap /\ "message" \in DOMAIN value.v
                   THEN (IF value.v["message"].t = "str"
                         THEN value.v["message"].v ELSE "Unknown error")
                   ELSE ""
    IN  Request(code, message)

(***************************************************************************)
(* Response fragments: src/src/google/response.rs                          *)
(***************************************************************************)
Candidate(content) == [content |-> content]
ContentResponse(candidates, error) == [candidates |-> candidates, error |-> error]

(***************************************************************************)
(* Client::merge_response                                                  *)
(***************************************************************************)
\* a variant that pushes the content of every candidate, empty or not
RECURSIVE push_candidates_all(_, _, _)
push_candidates_all(cts, candidates, j) ==
    IF j > Len(candidates) THEN cts
    ELSE push_candidates_all(Append(cts, candidates[j].content), candidates, j + 1)

\* a variant that walks the candidates of a fragment from the last
RECURSIVE push_candidates_reversed(_, _, _)
push_candidates_reversed(cts, candidates, j) ==
    IF j > Len(candidates) THEN cts
    ELSE LET c == candidates[Len(candidates) + 1 - j]
         IN  IF c.content.parts # <<>>
             THEN push_candidates_reversed(Append(cts, c.content), candidates, j + 1)
             ELSE push_candidates_reversed(cts, candidates, j + 1)

RECURSIVE push_candidates(_, _, _)
push_candidates(cts, candidates, j) ==
    IF j > Len(candidates) THEN cts
    ELSE IF candidates[j].content.parts # <<>>
         THEN push_candidates(Append(cts, candidates[j].content), candidates, j + 1)
         ELSE push_candidates(cts, candidates, j + 1)

\* a variant that returns only the fragments it took a turn from
RECURSIVE merge_loop_appended(_, _, _, _)
merge_loop_appended(cts, success, rs, i) ==
    IF i > Len(rs) THEN [contents |-> cts, ret |-> Ok(success)]
    ELSE IF rs[i].error.some
         THEN [contents |-> cts, ret |-> Err(ErrorFrom(rs[i].error.v))]
         ELSE LET pushed_to == push_candidates(cts, rs[i].candidates, 1)
              IN  merge_loop_appended(
                    pushed_to,
                    IF pushed_to # cts THEN Append(success, rs[i]) ELSE success,
                    rs, i + 1)

RECURSIVE merge_loop(_, _, _, _)
merge_loop(cts, success, rs, i) ==
    IF i > Len(rs) THEN [contents |-> cts, ret |-> Ok(success)]
    ELSE IF rs[i].error.some
         THEN [contents |-> cts, ret |-> Err(ErrorFrom(rs[i].error.v))]
         ELSE merge_loop(push_candidates(cts, rs[i].candidates, 1),
                         Append(success, rs[i]), rs, i + 1)

\* a variant that walks every fragment and returns the error met last
RECURSIVE merge_keep_last(_, _, _, _)
merge_keep_last(cts, ret, rs, i) ==
    IF i > Len(rs) THEN [contents |-> cts, ret |-> ret]
    ELSE IF rs[i].error.some
         THEN merge_keep_last(cts, Err(ErrorFrom(rs[i].error.v)), rs, i + 1)
         ELSE merge_keep_last(
                IF ret.status = "ok" THEN push_candidates(cts, rs[i].candidates, 1)
                ELSE cts,
                IF ret.status = "ok" THEN Ok(Append(ret.v, rs[i])) ELSE ret,
                rs, i + 1)
merge_response_last_error(cts, rs) == merge_keep_last(cts, Ok(<<>>), rs, 1)

\* a variant that records a batch without fragments as a turn without parts
merge_response_marked(cts, rs) ==
    IF rs = <<>> THEN [contents |-> Append(cts, Content(<<>>, Model)), ret |-> Ok(<<>>)]
    ELSE merge_loop(cts, <<>>, rs, 1)

merge_response(cts, rs) == merge_loop(cts, <<>>, rs, 1)

(***************************************************************************)
(* Client::process_tools, the scan for function calls                      *)
(***************************************************************************)
\* a variant whose match arm also takes function-response parts
RECURSIVE calls_of_parts_responses(_, _)
calls_of_parts_responses(parts, k) ==
    IF k > Len(parts) THEN <<>>
    ELSE (IF parts[k].kind \in {"FunctionCall", "FunctionResponse"}
          THEN <<parts[k]>> ELSE <<>>)
         \o calls_of_parts_responses(parts, k + 1)

\* a variant that collects the calls of a candidate last part first
RECURSIVE calls_of_parts_reversed(_, _)
calls_of_parts_reversed(parts, k) ==
    IF k > Len(parts) THEN <<>>
    ELSE calls_of_parts_reversed(parts, k + 1)
         \o (IF parts[k].kind = "FunctionCall" THEN <<parts[k]>> ELSE <<>>)

RECURSIVE calls_of_parts(_, _)
calls_of_parts(parts, k) ==
    IF k > Len(parts) THEN <<>>
    ELSE (IF parts[k].kind = "FunctionCall" THEN <<parts[k]>> ELSE <<>>)
         \o calls_of_parts(parts, k + 1)

RECURSIVE calls_of_candidates(_, _)
calls_of_candidates(candidates, j) ==
    IF j > Len(candidates) THEN <<>>
    ELSE calls_of_parts(candidates[j].content.parts, 1)
         \o calls_of_candidates(candidates, j + 1)

RECURSIVE calls_of_responses(_, _)
calls_of_responses(rs, i) ==
    IF i > Len(rs) THEN <<>>
    ELSE calls_of_candidates(rs[i].candidates, 1) \o calls_of_responses(rs, i + 1)

collect_fn_calls(rs) == calls_of_responses(rs, 1)

(***************************************************************************)
(* Client::tool_call: the lookup before the collaborator is awaited, and   *)
(* the conversion of its content items after it returned                   *)
(***************************************************************************)
Declares(tool, name) ==
    \E k \in 1..Len(tool.function_declarations) :
        tool.function_declarations[k].name = name

\* a variant that takes the last declared block holding the name
find_index_last(tls, name) ==
    IF \E i \in 1..Len(tls) : Declares(tls[i], name)
    THEN CHOOSE i \in 1..Len(tls) :
            /\ Declares(tls[i], name)
            /\ \A h \in (i + 1)..Len(tls) : ~Declares(tls[h], name)
    ELSE 0

\* position (from 1) of the first declared block holding the name, 0 if none
find_index(tls, name) ==
    IF \E i \in 1..Len(tls) : Declares(tls[i], name)
    THEN CHOOSE i \in 1..Len(tls) :
            /\ Declares(tls[i], name)
            /\ \A h \in 1..(i - 1) : ~Declares(tls[h], name)
    ELSE 0

\* Ok(position of the collaborator to call) or Err(NotFound)
resolve(tls, ms, function_call) ==
    LET index == find_index(tls, function_call.name)
    IN  IF index = 0 THEN Err(NotFound("function", function_call.name))
        ELSE IF index > Len(ms)
             THEN Err(NotFound("Tool for function call", function_call.name))
             ELSE Ok(index)

\* serde_json::to_string of the item's struct, read back as a JSON map
ToMap(item) == item.fields

\* a variant that hands the id of the call on to the parts
response_parts_with_id(function_call, content) ==
    [k \in 1..Len(content) |->
        FunctionResponse(function_call.id, function_call.name, ToMap(content[k]))]

response_parts(function_call, content) ==
    [k \in 1..Len(content) |->
        FunctionResponse(None, function_call.name, ToMap(content[k]))]

(***************************************************************************)
(* Tool declarations: src/src/google/request.rs                            *)
(***************************************************************************)
\* impl From<&rust_mcp_sdk::schema::Tool> for FunctionDeclaration
FunctionDeclarationFrom(value) ==
    [name |-> value.name,
     description |-> IF value.description.some THEN value.description.v ELSE "None",
     parameters |-> IF value.schema_converts THEN Some(value.input_schema) ELSE None,
     response |-> None]

\* impl From<Vec<rust_mcp_sdk::schema::Tool>> for Tool
ToolFrom(value) ==
    [function_declarations |->
        [k \in 1..Len(value) |-> FunctionDeclarationFrom(value[k])]]

(***************************************************************************)
(* Configuration values: src/src/client/mod.rs with_defaults, with_options *)
(***************************************************************************)
GoogleModel ==
    {"Gemini20FlashExpImageGen", "Gemini20Flash", "Gemini25Flash", "Gemini25Pro"}

HarmCategory ==
    <<"HarmCategoryHarassment", "HarmCategoryHateSpeech",
      "HarmCategorySexuallyExplicit", "HarmCategoryDangerousContent",
      "HarmCategoryCivicIntegrity">>

DefaultThreshold == "BlockLowAndAbove"

default_safety_settings ==
    [k \in 1..Len(HarmCategory) |->
        [category |-> HarmCategory[k], threshold |-> DefaultThreshold]]

DefaultGenerationConfig == [response_modalities |-> <<>>, rest |-> "default"]

default_generation_config(m) ==
    IF m = "Gemini20FlashExpImageGen"
    THEN [DefaultGenerationConfig EXCEPT !.response_modalities = <<"Text", "Image">>]
    ELSE [DefaultGenerationConfig EXCEPT !.response_modalities = <<"Text">>]

options_for(m, options) ==
    IF m = "Gemini20FlashExpImageGen"
    THEN options
    ELSE [options EXCEPT !.response_modalities = <<"Text">>]

(***************************************************************************)
(* The environment: what callers, the transport and the collaborators can  *)
(* hand to the client                                                      *)
(***************************************************************************)
Texts == {"Hello"}
Blobs == {[mime_type |-> "image/png", data |-> "aGk="]}
FileDatas == {[mime_type |-> "text/plain", file_uri |-> "files/1"]}
Instructions == {"Be brief"}
SafetyInputs == {<<[category |-> "HarmCategoryHarassment", threshold |-> "BlockNone"]>>}
OptionInputs == {[response_modalities |-> <<"Image">>, rest |-> "custom"]}

\* the collaborators and the tools each of them lists
Collabs == {"cA", "cB"}
list_tools(c) ==
    IF c = "cA"
    THEN <<[name |-> "X", description |-> Some("tool X"),
            input_schema |-> "schemaX", schema_converts |-> TRUE]>>
    ELSE <<[name |-> "Y", description |-> None,
            input_schema |-> "schemaY", schema_converts |-> FALSE],
           [name |-> "Z", description |-> Some("tool Z"),
            input_schema |-> "schemaZ", schema_converts |-> TRUE]>>

\* what the model can put in a candidate
ModelParts ==
    {Text("Hi"),
     FunctionCall(Some("call-1"), "X", Some("args")),
     FunctionCall(None, "Y", None)}
\* every kind of part a candidate deserializes to
AnyParts ==
    ModelParts \cup
    {Thought(TRUE),
     InlineData([mime_type |-> "image/png", data |-> "aGk="]),
     FunctionResponse(None, "X", [type |-> "text", text |-> "42"]),
     FileDataPart([mime_type |-> "text/plain", file_uri |-> "files/1"]),
     ExecutableCode("Python", "print(1)"),
     CodeExecutionResult("OutcomeOk", "1")}
\* the roles a candidate's content can carry: the one the service documents,
\* and any that deserializes
ServiceRoles == {Model}
CandidateRoles == Role
\* the error objects of a fragment: the one of the scenarios, and others
ServiceErrors == {JMap([code |-> JInt(7), message |-> JStr("quota")])}
ErrorValues ==
    ServiceErrors \cup {JMap([code |-> JInt(3), message |-> JStr("denied")])}
\* what the service returns: as the scenarios have it, and all that
\* deserializes
Documented == [parts |-> ModelParts, roles |-> ServiceRoles, errors |-> ServiceErrors]
Deserializable == [parts |-> AnyParts, roles |-> CandidateRoles, errors |-> ErrorValues]
\* ... and a service whose candidates hold function calls only
Calling ==
    [parts |-> {p \in ModelParts : p.kind = "FunctionCall"},
     roles |-> ServiceRoles, errors |-> ServiceErrors]

\* ... and a service that answers with text in pieces, empty ones and an
\* inline image among them
Chatting ==
    [parts |-> {Text("Hi"), Text("!"), Text(""),
                InlineData([mime_type |-> "image/png", data |-> "aGk="])},
     roles |-> ServiceRoles, errors |-> ServiceErrors]

\* what a collaborator can return from call_tool
ContentItems ==
    {[variant |-> "TextContent", fields |-> [type |-> "text", text |-> "42"]],
     [variant |-> "ImageContent", fields |-> [type |-> "image", data |-> "aGk="]],
     [variant |-> "AudioContent", fields |-> [type |-> "audio", data |-> "aGk="]],
     [variant |-> "EmbeddedResource", fields |-> [type |-> "resource", uri |-> "r/1"]]}

\* batches by weight: one for each fragment, candidate and part
RECURSIVE CandidateSeqs(_, _)
CandidateSeqs(w, svc) ==
    IF w <= 0 THEN {<<>>}
    ELSE {<<>>} \cup
         UNION {{<<Candidate(Content(ps, r))>> \o rest :
                    rest \in CandidateSeqs(w - 1 - Len(ps), svc)} :
                ps \in SeqsUpTo(svc.parts, w - 1), r \in svc.roles}

RECURSIVE CandidatesWeight(_)
CandidatesWeight(cs) ==
    IF cs = <<>> THEN 0
    ELSE 1 + Len(Head(cs).content.parts) + CandidatesWeight(Tail(cs))

Fragments(w, svc) ==
    IF w <= 0 THEN {}
    ELSE {ContentResponse(<<>>, Some(e)) : e \in svc.errors}
         \cup {ContentResponse(cs, None) : cs \in CandidateSeqs(w - 1, svc)}

FragmentWeight(f) == 1 + CandidatesWeight(f.candidates)

RECURSIVE BatchesUpTo(_, _)
BatchesUpTo(w, svc) ==
    IF w <= 0 THEN {<<>>}
    ELSE {<<>>} \cup
         UNION {{<<f>> \o rest : rest \in BatchesUpTo(w - FragmentWeight(f), svc)} :
                f \in Fragments(w, svc)}

RECURSIVE BatchWeight(_)
BatchWeight(b) ==
    IF b = <<>> THEN 0 ELSE FragmentWeight(Head(b)) + BatchWeight(Tail(b))

Weights ==
    0..(IF MaxWeight >= MaxConfigWeight /\ MaxWeight >= MaxToolWeight THEN MaxWeight
        ELSE IF MaxConfigWeight >= MaxToolWeight THEN MaxConfigWeight
        ELSE MaxToolWeight)
Batches == [w \in Weights |-> BatchesUpTo(w, Documented)]
AnyBatches == [w \in 0..MaxConfigWeight |-> BatchesUpTo(w, Deserializable)]
\* the batches of weight w at most that the service svc returns
CallBatches == [w \in 0..MaxToolWeight |-> BatchesUpTo(w, Calling)]
TextBatches == [w \in 0..MaxTextWeight |-> BatchesUpTo(w, Chatting)]
received(svc, w) ==
    IF svc = Documented THEN Batches[w]
    ELSE IF svc = Calling THEN CallBatches[w]
    ELSE IF svc = Chatting THEN TextBatches[w] ELSE AnyBatches[w]
ToolResults ==
    [w \in Weights |-> SeqsUpTo(ContentItems, IF w < MaxItems THEN w ELSE MaxItems)]
Registrations == [n \in 0..(MaxCollabs + 1) |-> SeqsUpTo(Collabs, n)]

(***************************************************************************)
(* State                                                                   *)
(***************************************************************************)
VARIABLES
    \* struct Client
    model,               \* Client.model
    contents,            \* Client.request.contents, the history
    system_instruction,  \* Client.request.system_instruction
    tools,               \* Client.request.tools, the declared tool blocks
    safety_settings,     \* Client.request.safety_settings
    generation_config,   \* Client.request.generation_config
    mcps,                \* Client.mcps, the registration
    \* the send in flight
    pc,                  \* where the driver stands
    raw,                 \* the fragments the transport returned (do_post)
    responses,           \* post's `responses`: the consolidated batch
    fn_calls,            \* process_tools' `fn_calls`
    fn_idx,              \* position of process_tools' dispatch loop
    result,              \* what the last operation returned to its caller
    \* history variables of the send in flight
    h_call,              \* the history when the send was called
    h_merge,             \* the history when merge_response was entered
    h_tools,             \* the history when process_tools was entered
    user_turn,           \* the turn the send built from its argument
    nposts,              \* transport requests this send has issued
    batches,             \* the batches the transport returned to this send
    returned,            \* the content lists call_tool returned, last dispatch cycle
    appended,            \* the turns this send has pushed, in order
    cycles,              \* the dispatch cycles of this send in which every call returned
    h_result,            \* what the client had last returned when the send was called
    awaiting,            \* the awaits on the transport and on collaborators
                         \* that have not returned
    exchanges,           \* Some(user turn and candidate content of each send)
                         \* while every send returned one candidate with
                         \* parts and no function call, None after another
    \* what the caller and the environment may still do within the bounds
    sends_left,          \* send calls
    weight_left,         \* fragments, candidates, parts and content items
    cfg_left,            \* configuration calls
    width,               \* collaborators the caller hands to with_tools_client
    service,             \* the roles and error objects the service returns
    \* what the caller has seen and holds besides the client
    asked,               \* the collaborators the last with_tools_client asked to
                         \* list their tools
    other,               \* Some(a second client value, cloned from this one), or None
    squashed             \* what Responses::text returned for the batch of the last send

client == <<model, contents, system_instruction, tools, safety_settings,
            generation_config, mcps>>
flight == <<pc, raw, responses, fn_calls, fn_idx, result>>
hist == <<h_call, h_merge, h_tools, user_turn, nposts, batches, returned, appended,
          cycles, h_result>>
left == <<sends_left, weight_left, cfg_left, width, service>>
seen == <<asked, other, squashed>>
vars == <<client, flight, hist, awaiting, exchanges, left, seen>>

\* Client::new, and the caller: what it will ask of the client
Constructed(models, sends, weight, cfg, collabs, svc) ==
    /\ model \in models
    /\ sends_left = sends
    /\ weight_left = weight
    /\ cfg_left = cfg
    /\ width = collabs
    /\ service = svc

\* the client as Client::new leaves it
New ==
    /\ contents = <<>>
    /\ system_instruction = None
    /\ tools = <<>>
    /\ safety_settings = <<>>
    /\ generation_config = None
    /\ mcps = <<>>
    /\ pc = "Idle"
    /\ raw = <<>>
    /\ responses = <<>>
    /\ fn_calls = <<>>
    /\ fn_idx = 0
    /\ result = NoResult
    /\ h_call = <<>>
    /\ h_merge = <<>>
    /\ h_tools = <<>>
    /\ user_turn = None
    /\ nposts = 0
    /\ batches = <<>>
    /\ returned = <<>>
    /\ appended = <<>>
    /\ cycles = 0
    /\ h_result = NoResult
    /\ asked = <<>>
    /\ other = None
    /\ squashed = NoResult
    /\ awaiting = {}
    /\ exchanges = Some(<<>>)

\* a caller that configures the client for any model and sends once
Init ==
    /\ Constructed(GoogleModel, 1, MaxConfigWeight, MaxConfigOps, MaxCollabs,
                   Documented)
    /\ New

\* a caller that registers one collaborator and sends once: the tool loop
InitLoop ==
    /\ Constructed({"Gemini20Flash"}, 1, MaxWeight, 1, 1, Documented)
    /\ New

\* a caller that sends repeatedly
InitSends ==
    /\ Constructed({"Gemini25Pro"}, MaxSends, MaxWeight, 0, 0, Documented)
    /\ New

\* a variant in which a failed send leaves the client unusable
AtRest_unfailed == pc = "Idle"

\* no send is in flight: the client can be borrowed by its caller
AtRest == pc \in {"Idle", "Failed"}

\* request.send() of the n-th do_post of a send, and t.call_tool(params) for
\* the k-th function call of a batch, t being self.mcps.get(index)
request(n, body) == [op |-> "request", n |-> n, json |-> body]
\* a variant that sends the newest turn only
json_newest(cts) ==
    [system_instruction |-> system_instruction,
     contents |-> IF cts = <<>> THEN <<>> ELSE <<cts[Len(cts)]>>, tools |-> tools,
     safety_settings |-> safety_settings, generation_config |-> generation_config]

\* .json(&self.request) with the history cts: the body of a request
json(cts) ==
    [system_instruction |-> system_instruction, contents |-> cts, tools |-> tools,
     safety_settings |-> safety_settings, generation_config |-> generation_config]
\* the awaits left when the n-th request returned
request_returned(aw, n) == {a \in aw : ~(a.op = "request" /\ a.n = n)}
invocation(k, index, t, function_call) ==
    [op |-> "call_tool", n |-> k, index |-> index, client |-> t,
     params |-> [arguments |-> function_call.args, name |-> function_call.name]]
\* the awaits left when the k-th call_tool returned
call_returned(aw, k) == {a \in aw : ~(a.op = "call_tool" /\ a.n = k)}

(***************************************************************************)
(* Configuration operations                                                *)
(***************************************************************************)
\* a configuration operation returns r to its caller; no send is in flight
Returns(r) ==
    /\ pc' = "Idle"
    /\ result' = r
    /\ UNCHANGED <<raw, responses, fn_calls, fn_idx>>

with_defaults ==
    /\ AtRest /\ cfg_left > 0
    /\ safety_settings' = default_safety_settings
    /\ generation_config' = Some(default_generation_config(model))
    /\ cfg_left' = cfg_left - 1
    /\ UNCHANGED <<model, contents, system_instruction, tools, mcps>>
    /\ Returns(Configured)
    /\ UNCHANGED <<hist, awaiting, exchanges, sends_left, weight_left, width, service, seen>>

with_safety ==
    /\ AtRest /\ cfg_left > 0
    /\ \E s \in SafetyInputs : safety_settings' = s
    /\ cfg_left' = cfg_left - 1
    /\ UNCHANGED <<model, contents, system_instruction, tools, generation_config, mcps>>
    /\ Returns(Configured)
    /\ UNCHANGED <<hist, awaiting, exchanges, sends_left, weight_left, width, service, seen>>

\* a variant that inserts the instruction turn for every model
instructed_contents_any(m, cts, text) == <<Content(<<Text(text)>>, User)>> \o cts

\* the history with_instructions leaves, and the system instruction
instructed_contents(m, cts, text) ==
    IF m = "Gemini20FlashExpImageGen"
    THEN <<Content(<<Text(text)>>, User)>> \o cts
    ELSE cts

instructed_system(m, sys, text) ==
    IF m = "Gemini20FlashExpImageGen"
    THEN sys
    ELSE Some(Content(<<Text(text)>>, User))

with_instructions ==
    /\ AtRest /\ cfg_left > 0
    /\ \E text \in Instructions :
        /\ contents' = instructed_contents(model, contents, text)
        /\ system_instruction' = instructed_system(model, system_instruction, text)
    /\ cfg_left' = cfg_left - 1
    /\ UNCHANGED <<model, tools, safety_settings, generation_config, mcps>>
    /\ Returns(Configured)
    /\ exchanges' = IF contents' = contents THEN exchanges ELSE None
    /\ UNCHANGED <<hist, awaiting, sends_left, weight_left, width, service, seen>>

with_options ==
    /\ AtRest /\ cfg_left > 0
    /\ \E options \in OptionInputs :
        generation_config' = Some(options_for(model, options))
    /\ cfg_left' = cfg_left - 1
    /\ UNCHANGED <<model, contents, system_instruction, tools, safety_settings, mcps>>
    /\ Returns(Configured)
    /\ UNCHANGED <<hist, awaiting, exchanges, sends_left, weight_left, width, service, seen>>

\* a variant that looks at the model after the registration was assigned and
\* the collaborators were asked
with_tools_client_unsupported_late ==
    /\ AtRest /\ cfg_left > 0
    /\ model = "Gemini20FlashExpImageGen"
    /\ \E ms \in Registrations[width] : mcps' = ms /\ asked' = ms
    /\ Returns(Err(UnsupportedConfig))
    /\ cfg_left' = cfg_left - 1
    /\ UNCHANGED <<model, contents, system_instruction, tools, safety_settings,
                   generation_config>>
    /\ UNCHANGED <<hist, awaiting, exchanges, sends_left, weight_left, width, service>>
    /\ UNCHANGED <<other, squashed>>

\* with_tools_client on a model without tool calls
with_tools_client_unsupported ==
    /\ AtRest /\ cfg_left > 0
    /\ model = "Gemini20FlashExpImageGen"
    /\ Returns(Err(UnsupportedConfig))
    /\ cfg_left' = cfg_left - 1
    /\ asked' = <<>>
    /\ UNCHANGED client
    /\ UNCHANGED <<hist, awaiting, exchanges, sends_left, weight_left, width, service>>
    /\ UNCHANGED <<other, squashed>>

\* with_tools_client, every list_tools call succeeding
with_tools_client_ok ==
    /\ AtRest /\ cfg_left > 0
    /\ model # "Gemini20FlashExpImageGen"
    /\ \E ms \in Registrations[width] :
        /\ mcps' = ms
        /\ tools' = [k \in 1..Len(ms) |-> ToolFrom(list_tools(ms[k]))]
        /\ asked' = ms
    /\ cfg_left' = cfg_left - 1
    /\ UNCHANGED <<model, contents, system_instruction, safety_settings, generation_config>>
    /\ Returns(Configured)
    /\ UNCHANGED <<hist, awaiting, exchanges, sends_left, weight_left, width, service>>
    /\ UNCHANGED <<other, squashed>>

\* with_tools_client, a list_tools call failing: `?` returns after self.mcps
\* was assigned and before self.request.tools is. The call that fails is the
\* one of the last collaborator handed in, the others were asked before it.
with_tools_client_err ==
    /\ AtRest /\ cfg_left > 0
    /\ model # "Gemini20FlashExpImageGen"
    /\ \E ms \in Registrations[width] \ {<<>>} :
        /\ mcps' = ms
        /\ asked' = ms
    /\ Returns(Err(MpcSdk))
    /\ cfg_left' = cfg_left - 1
    /\ UNCHANGED <<model, contents, system_instruction, tools, safety_settings,
                   generation_config>>
    /\ UNCHANGED <<hist, awaiting, exchanges, sends_left, weight_left, width, service>>
    /\ UNCHANGED <<other, squashed>>

(***************************************************************************)
(* The send operations: each pushes one user turn and enters post, whose   *)
(* first do_post issues the request                                        *)
(***************************************************************************)
Send(parts) ==
    /\ sends_left > 0
    /\ sends_left' = sends_left - 1
    /\ contents' = Append(contents, Content(parts, User))
    /\ pc' = "Sending"
    /\ result' = NoResult
    /\ h_call' = contents
    /\ user_turn' = Some(Content(parts, User))
    /\ nposts' = 1
    /\ batches' = <<>>
    /\ returned' = <<>>
    /\ appended' = Suffix(contents, contents')
    /\ cycles' = 0
    /\ h_result' = result
    /\ awaiting' = awaiting \cup {request(1, json(contents'))}
    /\ UNCHANGED exchanges
    /\ UNCHANGED <<model, system_instruction, tools, safety_settings,
                   generation_config, mcps>>
    /\ UNCHANGED <<raw, responses, fn_calls, fn_idx, h_merge, h_tools>>
    /\ squashed' = NoResult
    /\ UNCHANGED <<weight_left, cfg_left, width, service, asked, other>>

\* a variant of the clone that starts with no collaborator registered
to_owned_unregistered(m, cts, si, tl, ss, gc, ms) ==
    [model |-> m, contents |-> cts, system_instruction |-> si, tools |-> tl,
     safety_settings |-> ss, generation_config |-> gc, mcps |-> <<>>]

\* #[derive(Clone)] of Client, self.to_owned(): a value with a copy of every
\* field, the request with its turns and declarations and the list of
\* collaborators among them
to_owned(m, cts, si, tl, ss, gc, ms) ==
    [model |-> m, contents |-> cts, system_instruction |-> si, tools |-> tl,
     safety_settings |-> ss, generation_config |-> gc, mcps |-> ms]

\* the caller binds a second client value: client.clone(), which is also what
\* with_defaults, with_safety and with_tools_client hand back, self.to_owned()
\* being their last expression
clone_client ==
    /\ AtRest
    /\ other' = Some(to_owned(model, contents, system_instruction, tools,
                              safety_settings, generation_config, mcps))
    /\ other' # other
    /\ UNCHANGED <<client, flight, hist, awaiting, exchanges, left, asked, squashed>>

\* the caller turns to its second value: the operations that follow are
\* called on it, and the value they were called on until now is the second
use_other ==
    /\ AtRest
    /\ other.some
    /\ model' = other.v.model
    /\ contents' = other.v.contents
    /\ system_instruction' = other.v.system_instruction
    /\ tools' = other.v.tools
    /\ safety_settings' = other.v.safety_settings
    /\ generation_config' = other.v.generation_config
    /\ mcps' = other.v.mcps
    /\ other' = Some(to_owned(model, contents, system_instruction, tools,
                              safety_settings, generation_config, mcps))
    /\ other' # other
    /\ UNCHANGED <<flight, hist, awaiting, exchanges, left, asked, squashed>>

\* a variant of Responses::text that wraps the string whatever its length
Responses_text_wrapped(rs) ==
    LET RECURSIVE in_parts(_, _, _)
        in_parts(text, parts, p) ==
            IF p > Len(parts) THEN text
            ELSE in_parts(IF parts[p].kind = "Text" THEN text \o parts[p].text ELSE text,
                          parts, p + 1)
        RECURSIVE in_candidates(_, _, _)
        in_candidates(text, candidates, c) ==
            IF c > Len(candidates) THEN text
            ELSE in_candidates(in_parts(text, candidates[c].content.parts, 1),
                               candidates, c + 1)
        RECURSIVE in_responses(_, _)
        in_responses(text, f) ==
            IF f > Len(rs) THEN text
            ELSE in_responses(in_candidates(text, rs[f].candidates, 1), f + 1)
    IN  Some(in_responses("", 1))

\* Responses::text: the three loops append every Part::Text to one string,
\* which is wrapped unless it is empty
Responses_text(rs) ==
    LET RECURSIVE in_parts(_, _, _)
        in_parts(text, parts, p) ==
            IF p > Len(parts) THEN text
            ELSE in_parts(IF parts[p].kind = "Text" THEN text \o parts[p].text ELSE text,
                          parts, p + 1)
        RECURSIVE in_candidates(_, _, _)
        in_candidates(text, candidates, c) ==
            IF c > Len(candidates) THEN text
            ELSE in_candidates(in_parts(text, candidates[c].content.parts, 1),
                               candidates, c + 1)
        RECURSIVE in_responses(_, _)
        in_responses(text, f) ==
            IF f > Len(rs) THEN text
            ELSE in_responses(in_candidates(text, rs[f].candidates, 1), f + 1)
        text == in_responses("", 1)
    IN  IF text = "" THEN None ELSE Some(text)

\* the caller squashes the batch a send returned: responses.text()
responses_text ==
    /\ pc = "Idle"
    /\ result.status = "ok"
    /\ squashed = NoResult
    /\ squashed' = Ok(Responses_text(result.v))
    /\ UNCHANGED <<client, flight, hist, awaiting, exchanges, left, asked, other>>

send_text == \E text \in Texts : AtRest /\ Send(<<Text(text)>>)

send_image == \E blob \in Blobs : AtRest /\ Send(<<InlineData(blob)>>)

send_file_data == \E data \in FileDatas : AtRest /\ Send(<<FileDataPart(data)>>)

\* a variant that pushes the image before the message
send_image_bytes_image_first ==
    \E message \in {None} \cup {Some(t) : t \in Texts}, blob \in Blobs :
        /\ AtRest
        /\ Send(<<InlineData(blob)>>
                \o (IF message.some THEN <<Text(message.v)>> ELSE <<>>))

send_image_bytes ==
    \E message \in {None} \cup {Some(t) : t \in Texts}, blob \in Blobs :
        /\ AtRest
        /\ Send((IF message.some THEN <<Text(message.v)>> ELSE <<>>)
                \o <<InlineData(blob)>>)

(***************************************************************************)
(* do_post: the transport answers, then merge_response consolidates        *)
(***************************************************************************)
\* a variant that issues the request once more after a first failure
transport_err_retried ==
    /\ pc = "Sending" /\ nposts <= MaxPosts
    /\ IF nposts = Len(batches) + 1 /\ nposts < MaxPosts
       THEN /\ nposts' = nposts + 1
            /\ awaiting' = request_returned(awaiting, nposts)
                                \cup {request(nposts + 1, json(contents))}
            /\ UNCHANGED <<pc, result, exchanges>>
       ELSE /\ pc' = "Failed"
            /\ result' = Err(Reqwest)
            /\ awaiting' = request_returned(awaiting, nposts)
            /\ exchanges' = None
            /\ UNCHANGED nposts
    /\ UNCHANGED <<client, raw, responses, fn_calls, fn_idx, left, seen>>
    /\ UNCHANGED <<h_call, h_merge, h_tools, user_turn, batches, returned, appended, cycles,
                   h_result>>

\* request.send().await? or .json().await? fails
transport_err ==
    /\ pc = "Sending" /\ nposts <= MaxPosts
    /\ pc' = "Failed"
    /\ result' = Err(Reqwest)
    /\ awaiting' = request_returned(awaiting, nposts)
    /\ exchanges' = None
    /\ UNCHANGED <<client, raw, responses, fn_calls, fn_idx, hist, left, seen>>

transport_ok ==
    /\ pc = "Sending" /\ nposts <= MaxPosts
    /\ \E b \in received(service, weight_left) :
        /\ raw' = b
        /\ batches' = Append(batches, b)
        /\ weight_left' = weight_left - BatchWeight(b)
    /\ pc' = "Consolidating"
    /\ awaiting' = request_returned(awaiting, nposts)
    /\ UNCHANGED exchanges
    /\ UNCHANGED <<client, responses, fn_calls, fn_idx, result>>
    /\ UNCHANGED <<h_call, h_merge, h_tools, user_turn, nposts, returned, appended, cycles,
                   h_result>>
    /\ UNCHANGED <<sends_left, cfg_left, width, service, seen>>

consolidate ==
    /\ pc = "Consolidating"
    /\ LET m == merge_response(contents, raw)
       IN  /\ contents' = m.contents
           /\ IF m.ret.status = "ok"
              THEN /\ responses' = m.ret.v
                   /\ pc' = "CheckingTools"
                   /\ UNCHANGED <<result, exchanges>>
              ELSE /\ pc' = "Failed"
                   /\ result' = m.ret
                   /\ exchanges' = None
                   /\ UNCHANGED responses
    /\ h_merge' = contents
    /\ appended' = appended \o Suffix(contents, contents')
    /\ UNCHANGED <<model, system_instruction, tools, safety_settings,
                   generation_config, mcps>>
    /\ UNCHANGED <<raw, fn_calls, fn_idx>>
    /\ UNCHANGED <<h_call, h_tools, user_turn, nposts, batches, returned, cycles, h_result,
                   awaiting, left, seen>>

(***************************************************************************)
(* process_tools and the loop of post                                      *)
(***************************************************************************)
\* variants: an `if` in place of the `while`, a loop that gives up after the
\* second request, and a loop whose condition ignores what process_tools
\* returned
loop_never(dispatched) == FALSE
loop_capped(dispatched) == dispatched /\ nposts < 2
loop_always(dispatched) == TRUE

\* the while of post: process_tools returned Ok(dispatched)
loop_continues(dispatched) == dispatched

\* the candidates of a batch whose content has parts: <<fragment, candidate>>
with_parts(b) ==
    {<<i, j>> \in (1..Len(b)) \X (1..MaxWeight) :
        /\ j <= Len(b[i].candidates)
        /\ b[i].candidates[j].content.parts # <<>>}

\* the exchanges after a send of turn returned the batch b
exchanged(e, turn, b) ==
    IF e.some /\ Cardinality(with_parts(b)) = 1
    THEN LET at == CHOOSE c \in with_parts(b) : TRUE
         IN  Some(e.v \o <<turn, b[at[1]].candidates[at[2]].content>>)
    ELSE None

\* the scan; with no function call process_tools returns Ok(false) and post
\* returns the batch
check_tools ==
    /\ pc = "CheckingTools"
    /\ LET calls == collect_fn_calls(responses)
       IN  /\ fn_calls' = calls
           /\ IF calls # <<>>
              THEN /\ pc' = "Resolving"
                   /\ fn_idx' = 1
                   /\ exchanges' = None
                   /\ UNCHANGED <<nposts, result, awaiting>>
              ELSE /\ fn_idx' = 0
                   /\ exchanges' = exchanged(exchanges, user_turn.v, responses)
                   /\ IF loop_continues(FALSE)
                      THEN /\ pc' = "Sending" /\ nposts' = nposts + 1
                           /\ awaiting' = awaiting \cup {request(nposts + 1, json(contents))}
                           /\ UNCHANGED result
                      ELSE /\ pc' = "Idle" /\ result' = Ok(responses)
                           /\ UNCHANGED <<nposts, awaiting>>
    /\ h_tools' = contents
    /\ returned' = IF collect_fn_calls(responses) # <<>> THEN <<>> ELSE returned
    /\ UNCHANGED <<client, raw, responses>>
    /\ UNCHANGED <<h_call, h_merge, user_turn, batches, appended, cycles, h_result, left, seen>>

\* a variant that starts the invocations of a batch without awaiting each:
\* the next lookup runs while call_tool has not returned
resolve_call_eager ==
    /\ \/ pc = "Resolving"
       \/ pc = "Calling" /\ fn_idx < Len(fn_calls)
    /\ LET k == IF pc = "Calling" THEN fn_idx + 1 ELSE fn_idx
           r == resolve(tools, mcps, fn_calls[k])
       IN  /\ fn_idx' = k
           /\ IF r.status = "ok"
              THEN /\ pc' = "Calling"
                   /\ awaiting' = awaiting \cup {invocation(k, r.v, mcps[r.v], fn_calls[k])}
                   /\ UNCHANGED result
              ELSE pc' = "Failed" /\ result' = r /\ UNCHANGED awaiting
    /\ UNCHANGED <<client, raw, responses, fn_calls, hist, exchanges, left, seen>>

\* a variant that asks the collaborators for their tools again before the
\* lookup, and keeps what they list
resolve_call_requeried ==
    /\ pc = "Resolving"
    /\ tools' = [k \in 1..Len(mcps) |-> ToolFrom(list_tools(mcps[k]))]
    /\ LET r == resolve(tools', mcps, fn_calls[fn_idx])
       IN  IF r.status = "ok"
           THEN /\ pc' = "Calling"
                /\ awaiting' = awaiting \cup {invocation(fn_idx, r.v, mcps[r.v], fn_calls[fn_idx])}
                /\ UNCHANGED result
           ELSE pc' = "Failed" /\ result' = r /\ UNCHANGED awaiting
    /\ UNCHANGED <<model, contents, system_instruction, safety_settings,
                   generation_config, mcps>>
    /\ UNCHANGED <<raw, responses, fn_calls, fn_idx, hist, exchanges, left, seen>>

\* tool_call up to the await of call_tool
resolve_call ==
    /\ pc = "Resolving"
    /\ LET r == resolve(tools, mcps, fn_calls[fn_idx])
       IN  IF r.status = "ok"
           THEN /\ pc' = "Calling"
                /\ awaiting' = awaiting \cup {invocation(fn_idx, r.v, mcps[r.v], fn_calls[fn_idx])}
                /\ UNCHANGED result
           ELSE pc' = "Failed" /\ result' = r /\ UNCHANGED awaiting
    /\ UNCHANGED <<client, raw, responses, fn_calls, fn_idx, hist, exchanges, left, seen>>

\* a variant that goes on with the next call of the batch after a failure
call_tool_err_skipped ==
    /\ pc = "Calling"
    /\ IF fn_idx < Len(fn_calls)
       THEN pc' = "Resolving" /\ fn_idx' = fn_idx + 1 /\ UNCHANGED result
       ELSE pc' = "Failed" /\ result' = Err(MpcSdk) /\ UNCHANGED fn_idx
    /\ awaiting' = call_returned(awaiting, fn_idx)
    /\ UNCHANGED <<client, raw, responses, fn_calls, hist, exchanges, left, seen>>

\* call_tool fails: `?` leaves tool_call, process_tools and post
call_tool_err ==
    /\ pc = "Calling"
    /\ pc' = "Failed"
    /\ result' = Err(MpcSdk)
    /\ awaiting' = call_returned(awaiting, fn_idx)
    /\ UNCHANGED <<client, raw, responses, fn_calls, fn_idx, hist, exchanges, left, seen>>

\* variants: the result turn put in front, and the result turn assigned
pushed_front(cts, parts) == <<Content(parts, User)>> \o cts
pushed_replacing(cts, parts) == <<Content(parts, User)>>

\* a variant that adds the parts to the turn of the previous result
pushed_into_last(cts, parts) ==
    IF cts # <<>> /\ cts[Len(cts)].role = User
    THEN [cts EXCEPT ![Len(cts)] = Content(cts[Len(cts)].parts \o parts, User)]
    ELSE Append(cts, Content(parts, User))

\* the history after the result of one call was pushed
pushed(cts, parts) == Append(cts, Content(parts, User))

\* call_tool returns: the parts are pushed as one turn; after the last call
\* process_tools returns Ok(true) and post calls do_post again
call_tool_ok ==
    /\ pc = "Calling"
    /\ \E content \in ToolResults[weight_left] :
        /\ contents' = pushed(contents, response_parts(fn_calls[fn_idx], content))
        /\ returned' = Append(returned, content)
        /\ appended' = appended \o Suffix(contents, contents')
        /\ weight_left' = weight_left - Len(content)
    /\ IF fn_idx < Len(fn_calls)
       THEN /\ fn_idx' = fn_idx + 1
            /\ pc' = "Resolving"
            /\ awaiting' = call_returned(awaiting, fn_idx)
            /\ UNCHANGED <<nposts, result, cycles>>
       ELSE /\ fn_idx' = 0
            /\ cycles' = cycles + 1
            /\ IF loop_continues(TRUE)
               THEN /\ pc' = "Sending" /\ nposts' = nposts + 1
                    /\ awaiting' = call_returned(awaiting, fn_idx)
                                        \cup {request(nposts + 1, json(contents'))}
                    /\ UNCHANGED result
               ELSE /\ pc' = "Idle" /\ result' = Ok(responses)
                    /\ awaiting' = call_returned(awaiting, fn_idx)
                    /\ UNCHANGED nposts
    /\ UNCHANGED <<model, system_instruction, tools, safety_settings,
                   generation_config, mcps>>
    /\ UNCHANGED <<raw, responses, fn_calls>>
    /\ UNCHANGED <<h_call, h_merge, h_tools, user_turn, batches, h_result, exchanges>>
    /\ UNCHANGED <<sends_left, cfg_left, width, service, seen>>

Next ==
    \/ with_defaults
    \/ with_safety
    \/ with_instructions
    \/ with_options
    \/ with_tools_client_unsupported
    \/ with_tools_client_ok
    \/ with_tools_client_err
    \/ send_text
    \/ send_image
    \/ send_file_data
    \/ send_image_bytes
    \/ transport_err
    \/ transport_ok
    \/ consolidate
    \/ check_tools
    \/ resolve_call
    \/ call_tool_err
    \/ call_tool_ok

Spec == Init /\ [][Next]_vars

\* a caller that configures a client with tool calls and sends once
InitOps ==
    /\ Constructed({"Gemini25Flash"}, 1, MaxConfigWeight, MaxConfigOps, MaxCollabs,
                   Documented)
    /\ New

\* every operation such a client accepts
NextOps ==
    \/ with_defaults
    \/ with_safety
    \/ with_instructions
    \/ with_options
    \/ with_tools_client_ok
    \/ with_tools_client_err
    \/ send_text
    \/ send_image
    \/ send_file_data
    \/ send_image_bytes
    \/ transport_err
    \/ transport_ok
    \/ consolidate
    \/ check_tools
    \/ resolve_call
    \/ call_tool_err
    \/ call_tool_ok

SpecOps == InitOps /\ [][NextOps]_vars

\* a caller that configures the image-generation model and sends once
InitImageGen ==
    /\ Constructed({"Gemini20FlashExpImageGen"}, 1, MaxConfigWeight, MaxConfigOps,
                   MaxCollabs, Documented)
    /\ New

\* every operation that does something on that model
NextImageGen ==
    \/ with_defaults
    \/ with_safety
    \/ with_instructions
    \/ with_options
    \/ with_tools_client_unsupported
    \/ send_text
    \/ send_image
    \/ send_file_data
    \/ send_image_bytes
    \/ transport_err
    \/ transport_ok
    \/ consolidate
    \/ check_tools
    \/ resolve_call

SpecImageGen == InitImageGen /\ [][NextImageGen]_vars

\* the operations of the caller that registers and sends text
NextLoop ==
    \/ with_tools_client_ok
    \/ with_tools_client_err
    \/ send_text
    \/ transport_err
    \/ transport_ok
    \/ consolidate
    \/ check_tools
    \/ resolve_call
    \/ call_tool_err
    \/ call_tool_ok

SpecLoop == InitLoop /\ [][NextLoop]_vars

\* the operations of the caller that sends text repeatedly
NextSends ==
    \/ send_text
    \/ transport_err
    \/ transport_ok
    \/ consolidate
    \/ check_tools
    \/ resolve_call

SpecSends == InitSends /\ [][NextSends]_vars

\* a caller that registers one collaborator and sends to a service returning
\* all that deserializes
InitAny ==
    /\ Constructed({"Gemini25Pro"}, MaxSends, MaxConfigWeight, 1, 1, Deserializable)
    /\ New

SpecAny == InitAny /\ [][NextLoop]_vars

\* the steps of a send in flight: the awaits of post return and the code
\* between them runs
Driver ==
    \/ transport_err
    \/ transport_ok
    \/ consolidate
    \/ check_tools
    \/ resolve_call
    \/ call_tool_err
    \/ call_tool_ok

\* a caller that registers collaborators and sends once, with every await of
\* the send returning
InitLive ==
    /\ Constructed({"Gemini25Flash"}, 1, MaxLiveWeight, 1, MaxCollabs, Documented)
    /\ New

SpecLive == InitLive /\ [][NextLoop]_vars /\ WF_vars(Driver)

\* a caller that registers collaborators and sends once to a service asking
\* for tools
InitTools ==
    /\ Constructed({"Gemini25Flash"}, 1, MaxToolWeight, 1, MaxCollabs, Calling)
    /\ New

SpecTools == InitTools /\ [][NextLoop]_vars

\* a caller that registers collaborators, once or twice, around such a send
InitLookup ==
    /\ Constructed({"Gemini25Flash"}, 1, MaxLookupWeight, 2, MaxCollabs, Calling)
    /\ New

SpecLookup == InitLookup /\ [][NextLoop]_vars

\* a caller that holds two client values and operates on either
InitClones ==
    /\ Constructed({"Gemini25Flash"}, 2, MaxConfigWeight, 1, 1, Documented)
    /\ New

NextClones ==
    \/ with_defaults
    \/ with_safety
    \/ with_tools_client_ok
    \/ with_tools_client_err
    \/ clone_client
    \/ use_other
    \/ send_text
    \/ transport_err
    \/ transport_ok
    \/ consolidate
    \/ check_tools
    \/ resolve_call
    \/ call_tool_err
    \/ call_tool_ok

SpecClones == InitClones /\ [][NextClones]_vars

\* a caller that sends text to a service answering with text in pieces and
\* squashes what comes back
InitText ==
    /\ Constructed({"Gemini25Flash"}, 1, MaxTextWeight, 0, 0, Chatting)
    /\ New

NextText ==
    \/ send_text
    \/ transport_err
    \/ transport_ok
    \/ consolidate
    \/ check_tools
    \/ responses_text

SpecText == InitText /\ [][NextText]_vars

(***************************************************************************)
(* What the properties below are stated with                               *)
(***************************************************************************)
\* the last operation was a send that failed with the error of a fragment
ServiceFailed == pc = "Failed" /\ result.status = "err" /\ result.e.kind = "Request"

\* ... with Error::NotFound from tool_call
NotFoundFailed == pc = "Failed" /\ result.status = "err" /\ result.e.kind = "NotFound"

\* the position of the first fragment of b carrying an error, Len(b) + 1 if none
FirstError(b) ==
    IF \E i \in 1..Len(b) : b[i].error.some
    THEN CHOOSE i \in 1..Len(b) :
            b[i].error.some /\ \A h \in 1..(i - 1) : ~b[h].error.some
    ELSE Len(b) + 1

\* the turns of one fragment: the content of its candidates that have parts
TurnsOf(fragment) ==
    LET kept == SelectSeq(fragment.candidates, LAMBDA c : c.content.parts # <<>>)
    IN  [j \in 1..Len(kept) |-> kept[j].content]

\* the turns of the first n fragments of b
RECURSIVE TurnsUpTo(_, _)
TurnsUpTo(b, n) == IF n = 0 THEN <<>> ELSE TurnsUpTo(b, n - 1) \o TurnsOf(b[n])

\* C11: with every transport call and every tool invocation returning, and
\* the model returning a batch free of function calls (or an error occurring)
\* after finitely many cycles, every send returns to its caller, with the
\* final batch or with an error.
C11_SendReturns ==
    (pc = "Sending")
    ~> \/ pc = "Idle" /\ result.status = "ok"
       \/ pc = "Failed" /\ result.status = "err"

\* a send that returned its final batch after a dispatch cycle
C11_Witness ==
    /\ pc = "Idle" /\ result.status = "ok"
    /\ nposts = 2 /\ returned # <<>>

\* C12: within one conversation at most one external operation is
\* outstanding: a transport request is issued only after the response to the
\* previous one was consolidated and every invocation of the preceding
\* dispatch cycle has returned, and an invocation is started only after the
\* previous invocation of the same cycle has returned.
C12_OneOutstanding ==
    /\ Cardinality(awaiting) <= 1
    /\ \A a \in awaiting :
        /\ a.op = "request" =>
            /\ a.n = nposts /\ pc = "Sending"
            /\ Len(batches) = a.n - 1
            /\ a.n > 1 => /\ responses = batches[a.n - 1]
                          /\ Len(returned) = Len(collect_fn_calls(responses))
        /\ a.op = "call_tool" =>
            /\ a.n = fn_idx /\ pc = "Calling"
            /\ Len(batches) = nposts
            /\ Len(returned) = a.n - 1

\* the second invocation of a cycle is outstanding
C12_Witness == \E a \in awaiting : a.op = "call_tool" /\ a.n = 2

C14_TurnsOfBatch ==
    pc = "CheckingTools"
    => contents = h_merge \o TurnsUpTo(raw, Len(raw))

\* two fragments, a fragment with two candidates, one of them without parts
C14_Witness ==
    /\ pc = "CheckingTools"
    /\ Len(raw) = 2
    /\ Len(contents) = Len(h_merge) + 2
    /\ contents[Len(contents)] # contents[Len(contents) - 1]
    /\ \E i \in 1..Len(raw) :
        /\ Len(raw[i].candidates) = 2
        /\ \E j \in 1..2 : raw[i].candidates[j].content.parts = <<>>

\* C15: every turn that consolidation appends has role model, whatever role
\* the content of the candidate carried in the fragment.
C15_ModelRole ==
    pc = "CheckingTools"
    => \A k \in (Len(h_merge) + 1)..Len(contents) : contents[k].role = Model

\* C16: merge_response walks the fragments in arrival order and, when a
\* fragment carries an error, returns the error of the first such fragment,
\* as Error::Request with the integer `code` and the string `message` of
\* that fragment's error object.
C16_FirstError ==
    ServiceFailed
    => LET error == raw[FirstError(raw)].error.v
       IN  /\ result.e.code = error.v.code.v
           /\ result.e.message = error.v.message.v

\* a batch with two error fragments of different codes
C16_Witness ==
    /\ ServiceFailed
    /\ \E i \in 1..Len(raw) :
        /\ raw[i].error.some
        /\ raw[i].error.v.v.code # raw[FirstError(raw)].error.v.v.code

\* C17: for a batch without error fragment, merge_response returns every
\* fragment of the batch, in arrival order and in the same number,
\* fragments that gave the history no turn included.
C17_ReturnsEveryFragment == pc = "CheckingTools" => responses = raw

\* a batch of two fragments, one of which gave no turn
C17_Witness ==
    /\ pc = "CheckingTools"
    /\ Len(responses) = 2
    /\ Len(contents) = Len(h_merge) + 1

\* the function-call parts of a batch
CallsIn(b) ==
    {<<i, j, k>> \in (1..Len(b)) \X (1..MaxWeight) \X (1..MaxWeight) :
        /\ j <= Len(b[i].candidates)
        /\ k <= Len(b[i].candidates[j].content.parts)
        /\ b[i].candidates[j].content.parts[k].kind = "FunctionCall"}

ErrorFree(b) == \A i \in 1..Len(b) : ~b[i].error.some

\* C1: consolidation is all-or-nothing per batch: when merge_response meets a
\* fragment carrying an error, after any number of error-free fragments, the
\* history after the call equals the history before it.
C1_AllOrNothing == ServiceFailed => contents = h_merge

\* C2: a dispatch cycle that resolves K >= 1 invocations, each returning one
\* content item, appends exactly one user turn, holding the K function
\* responses in discovery order.
C2_OneTurnPerCycle ==
    (/\ pc = "Sending" /\ nposts > 1
     /\ \A k \in 1..Len(returned) : Len(returned[k]) = 1)
    => /\ Len(contents) = Len(h_tools) + 1
       /\ contents[Len(contents)] =
            Content([k \in 1..Len(fn_calls) |->
                        FunctionResponse(None, fn_calls[k].name, returned[k][1].fields)],
                    User)

\* C3, as the claim states it: when the first batch of a send holds a fragment
\* carrying a service error, the history after the failed send equals the
\* history before the send was called.
C3_Unchanged == (ServiceFailed /\ nposts = 1) => contents = h_call

\* C3, as the code has it: the history after the failed send is the history
\* before the call, then the caller's user turn, then the turns of the
\* fragments that precede the first fragment carrying an error.
C3_UserTurnKept ==
    (ServiceFailed /\ nposts = 1)
    => contents = h_call \o <<user_turn.v>> \o TurnsUpTo(raw, FirstError(raw) - 1)

\* a first batch whose first fragment carries the error, after an earlier send
C3_Witness ==
    /\ ServiceFailed /\ nposts = 1
    /\ FirstError(raw) = 1
    /\ h_call # <<>>

\* C4: when process_tools dispatches a call whose name no declared function
\* has, at any position in the batch, it returns NotFound and the history is
\* what it was when process_tools was entered.
C4_NotFoundLeavesHistory == NotFoundFailed => contents = h_tools

\* a batch of one fragment holding one candidate
OneCandidate(b) == Len(b) = 1 /\ ~b[1].error.some /\ Len(b[1].candidates) = 1

\* the send of the scenario of C5 has returned
ToolScenario ==
    /\ pc = "Idle" /\ result.status = "ok"
    /\ Len(batches) = 2
    /\ OneCandidate(batches[1]) /\ Cardinality(CallsIn(batches[1])) = 1
    /\ OneCandidate(batches[2]) /\ CallsIn(batches[2]) = {}
    /\ batches[2][1].candidates[1].content.parts # <<>>
    /\ Len(returned) = 1 /\ returned[1] # <<>>

\* C5: first batch one candidate with a function call to a registered tool
\* that succeeds, second batch free of function calls: the driver resubmits
\* exactly once and the history on return is the history before the call,
\* then the user turn, the model turn with the call, a user turn with the
\* function response, the model's final turn.
C5_ToolRoundTrip ==
    ToolScenario
    => /\ nposts = 2
       /\ LET call == batches[1][1].candidates[1].content
              at == CHOOSE c \in CallsIn(batches[1]) : TRUE
              name == call.parts[at[3]].name
              answer == Content([k \in 1..Len(returned[1]) |->
                                    FunctionResponse(None, name, returned[1][k].fields)],
                                User)
              final == batches[2][1].candidates[1].content
          IN  contents = h_call \o <<user_turn.v, call, answer, final>>

C5_Witness == ToolScenario /\ h_call = <<>> /\ Len(contents) = 4

\* C6: whenever a send returns successfully, the returned batch is the most
\* recently received consolidated batch and holds no function-call part in
\* any candidate of any fragment.
C6_ReturnsToolFree ==
    result.status = "ok"
    => /\ pc = "Idle"
       /\ batches # <<>>
       /\ result.v = batches[Len(batches)]
       /\ \A i \in 1..Len(result.v) :
            /\ ~result.v[i].error.some
            /\ \A j \in 1..Len(result.v[i].candidates) :
                \A k \in 1..Len(result.v[i].candidates[j].content.parts) :
                    result.v[i].candidates[j].content.parts[k].kind # "FunctionCall"

\* a send that returned after a dispatch cycle
C6_Witness == result.status = "ok" /\ nposts = 2 /\ result.v # <<>>

\* the turn with_instructions builds from one of the instruction texts
InstructionTurns == {Content(<<Text(text)>>, User) : text \in Instructions}

\* C7, as the claim states it: for every public operation and every model
\* variant, the history before the operation is a prefix of the history
\* after it.
C7_AppendOnly == [][IsPrefix(contents, contents')]_vars

\* C7, as the code has it: every step appends to the history, except
\* with_instructions on Gemini20FlashExpImageGen, which puts the instruction
\* turn in front of the turns already there and leaves their order and
\* content as they were.
C7_AppendOnlyButInstructions ==
    [][\/ IsPrefix(contents, contents')
       \/ /\ model = "Gemini20FlashExpImageGen"
          /\ AtRest /\ cfg_left' < cfg_left
          /\ \E turn \in InstructionTurns : contents' = <<turn>> \o contents]_vars

\* instructions given to the image-generation model after a turn was appended
C7_Witness ==
    /\ model = "Gemini20FlashExpImageGen"
    /\ Len(contents) > 1
    /\ contents[1] \in InstructionTurns

\* C8: a failed send is never rolled back: every turn appended during that
\* send before the failure (the caller's user turn, model turns of
\* consolidated batches, result turns of completed dispatches) is still in
\* the history, at the same position, after the error was returned.
C8_NoRollback ==
    pc = "Failed"
    => /\ appended # <<>>
       /\ appended[1] = user_turn.v
       /\ contents = h_call \o appended

\* a send that failed after a model turn and a result turn were appended
C8_Witness == pc = "Failed" /\ Len(appended) > 2 /\ nposts > 1

\* the steps of post that check for and dispatch function calls
Dispatching == {"CheckingTools", "Resolving", "Calling"}

\* C9, as the claim states it: Failed is entered only from Sending or from
\* Consolidating; no step taken while checking or dispatching tools leads to
\* Failed.
C9_FailedOnlyFromPost ==
    [][pc' = "Failed" => pc \in {"Sending", "Consolidating"}]_vars

\* the transitions of the driver
Transitions ==
    {<<"Idle", "Idle">>, <<"Failed", "Idle">>,
     <<"Idle", "Sending">>, <<"Failed", "Sending">>,
     <<"Sending", "Consolidating">>, <<"Sending", "Failed">>,
     <<"Consolidating", "CheckingTools">>, <<"Consolidating", "Failed">>,
     <<"CheckingTools", "Idle">>, <<"CheckingTools", "Resolving">>,
     <<"Resolving", "Calling">>, <<"Resolving", "Failed">>,
     <<"Calling", "Resolving">>, <<"Calling", "Sending">>, <<"Calling", "Failed">>}

\* C9, as the code has it: the driver follows Idle -> Sending ->
\* Consolidating -> (CheckingTools -> Sending)* -> Idle, and Failed is
\* entered from Sending (transport failure), from Consolidating (error
\* fragment), and while dispatching tools: from the lookup of a call
\* (NotFound) and from the invocation of the collaborator (its error).
C9_Transitions ==
    [][/\ <<pc, pc'>> \in Transitions
       /\ pc' = "Failed" =>
            \/ pc = "Sending" /\ result'.e.kind = "Reqwest"
            \/ pc = "Consolidating" /\ result'.e.kind = "Request"
            \/ pc = "Resolving" /\ result'.e.kind = "NotFound"
            \/ pc = "Calling" /\ result'.e.kind = "MpcSdk"]_vars

\* a send that failed while dispatching
C9_Witness ==
    /\ pc = "Failed" /\ result.status = "err"
    /\ result.e.kind \in {"NotFound", "MpcSdk"}
    /\ fn_calls # <<>>

\* every batch the model returned to this send is error-free and holds a
\* function call
EveryBatchCalls ==
    /\ batches # <<>>
    /\ \A n \in 1..Len(batches) : ErrorFree(batches[n]) /\ CallsIn(batches[n]) # {}

\* C10: the tool loop has no iteration cap: while every batch is error-free
\* and holds a function call to a registered tool that succeeds, the driver
\* resubmits after each dispatch, whatever the number of cycles, and the send
\* does not return to the caller.
C10_NoIterationCap ==
    EveryBatchCalls
    => /\ result.status # "ok"
       /\ pc = "Idle" => result.status \in {"self", "err"}
       /\ pc = "Sending" => nposts = Len(batches) + 1

\* the third request of one send is about to be issued
C10_Witness == EveryBatchCalls /\ pc = "Sending" /\ nposts = 3

\* the kinds of the parts of a batch
KindsIn(b) ==
    {b[i].candidates[j].content.parts[k].kind :
        <<i, j, k>> \in {<<i, j, k>> \in (1..Len(b)) \X (1..MaxWeight) \X (1..MaxWeight) :
                            /\ j <= Len(b[i].candidates)
                            /\ k <= Len(b[i].candidates[j].content.parts)}}

\* C18: with every dispatch succeeding, process_tools reports true exactly
\* when the batch holds a function-call part: post then issues the next
\* request. On a batch of text, inline-data, file-data, code, code-result,
\* thought and function-response parts only, it invokes no collaborator,
\* leaves the history as it is and reports false: post returns the batch.
C18_DispatchedIffCalls ==
    [][/\ (pc = "CheckingTools" /\ CallsIn(responses) = {})
            => /\ pc' = "Idle" /\ result' = Ok(responses)
               /\ contents' = contents
               /\ awaiting' = {}
               /\ nposts' = nposts
       /\ (pc = "CheckingTools" /\ CallsIn(responses) # {}) => pc' = "Resolving"
       /\ (pc = "Resolving" /\ pc' # "Failed")
            => \E a \in awaiting' : a.op = "call_tool"
       /\ (pc = "Calling" /\ pc' # "Failed")
            => /\ CallsIn(responses) # {}
               /\ IF Len(returned') < Cardinality(CallsIn(responses))
                  THEN pc' = "Resolving"
                  ELSE pc' = "Sending" /\ nposts' = nposts + 1
      ]_vars

\* a send returned a batch with a function-response part and no call, the
\* history as process_tools found it
C18_Witness ==
    /\ pc = "Idle" /\ result = Ok(responses)
    /\ "FunctionResponse" \in KindsIn(responses)
    /\ CallsIn(responses) = {}
    /\ contents = h_tools
    /\ fn_calls = <<>>

\* <<fragment, candidate, part>> x comes before y
Before(x, y) ==
    \/ x[1] < y[1]
    \/ x[1] = y[1] /\ x[2] < y[2]
    \/ x[1] = y[1] /\ x[2] = y[2] /\ x[3] < y[3]

\* the function calls of a batch by fragment, then candidate, then part
Discovered(b) ==
    LET calls == CallsIn(b)
    IN  [n \in 1..Cardinality(calls) |->
            LET x == CHOOSE x \in calls :
                        Cardinality({y \in calls : Before(y, x)}) = n - 1
            IN  b[x[1]].candidates[x[2]].content.parts[x[3]]]

\* the turn that answers the call with the content list a collaborator returned
Answer(call, content) ==
    Content([k \in 1..Len(content) |->
                FunctionResponse(None, call.name, content[k].fields)], User)

\* C19: within one dispatch cycle the collaborators are invoked in the order
\* the function calls were discovered (fragment, then candidate, then part),
\* and the function-response parts stand in the history in that order.
C19_DiscoveryOrder ==
    (pc \in {"Resolving", "Calling"} \/ (pc = "Sending" /\ nposts > 1))
    => LET d == Discovered(responses)
       IN  /\ \A a \in awaiting :
                a.op = "call_tool"
                => /\ a.n = Len(returned) + 1
                   /\ a.params = [arguments |-> d[a.n].args, name |-> d[a.n].name]
           /\ Len(returned) <= Len(d)
           /\ contents = h_tools \o [n \in 1..Len(returned) |-> Answer(d[n], returned[n])]

\* a cycle of two calls to different tools is over, each answered with parts
C19_Witness ==
    /\ pc = "Sending" /\ nposts = 2
    /\ Len(returned) = 2
    /\ returned[1] # <<>> /\ returned[2] # <<>>
    /\ Discovered(responses)[1].name # Discovered(responses)[2].name

\* the declared tool blocks that hold a function of this name
BlocksOf(name) ==
    {i \in 1..Len(tools) :
        name \in {tools[i].function_declarations[k].name :
                    k \in 1..Len(tools[i].function_declarations)}}

\* C20: tool_call invokes the collaborator registered at the position of the
\* first declared tool block that holds a function of exactly the call's
\* name; it returns NotFound exactly when no block holds the name or the
\* registration has no entry at that position, and then invokes none.
C20_FirstBlock ==
    [][pc = "Resolving"
       => LET name == fn_calls[fn_idx].name
              blocks == BlocksOf(name)
          IN  IF blocks = {} \/ \A i \in blocks : i > Len(mcps)
              THEN /\ pc' = "Failed"
                   /\ result'.status = "err" /\ result'.e.kind = "NotFound"
                   /\ awaiting' = {}
              ELSE /\ pc' = "Calling"
                   /\ result' = result
                   /\ \E i \in blocks :
                        /\ \A h \in blocks : i <= h
                        /\ awaiting' =
                             {[op |-> "call_tool", n |-> fn_idx, index |-> i,
                               client |-> mcps[i],
                               params |-> [arguments |-> fn_calls[fn_idx].args,
                                           name |-> name]]}
      ]_vars

\* two blocks hold the name and the collaborator of the first is awaited
C20_Witness ==
    \E a \in awaiting :
        /\ a.op = "call_tool"
        /\ a.index = 1
        /\ BlocksOf(a.params.name) = {1, 2}

\* the name is declared, in a block the registration has no entry for
C20_WitnessNoEntry ==
    /\ NotFoundFailed
    /\ BlocksOf(fn_calls[fn_idx].name) # {}
    /\ \A i \in BlocksOf(fn_calls[fn_idx].name) : i > Len(mcps)

\* the names a tool block declares
DeclaredIn(tool) ==
    {tool.function_declarations[k].name : k \in 1..Len(tool.function_declarations)}

\* C21: after any sequence of with_tools_client calls, successful or failing,
\* the registration and the declared tool list have the same length, and the
\* n-th block was produced from the tool list of the n-th collaborator.
C21_Correlated ==
    /\ Len(tools) = Len(mcps)
    /\ \A n \in 1..Len(mcps) :
        n <= Len(tools) => tools[n] = ToolFrom(list_tools(mcps[n]))

\* C25: when the schema conversion of one of the tools a collaborator lists
\* fails, with_tools_client succeeds, that tool is absent from the declared
\* list, and every other tool of the collaborator is declared.
C25_FailedSchemaOmitted ==
    (result = Configured /\ Len(tools) = Len(mcps))
    => \A n \in 1..Len(tools) :
        LET listed == list_tools(mcps[n])
        IN  \A k \in 1..Len(listed) :
                listed[k].name \in DeclaredIn(tools[n]) <=> listed[k].schema_converts

\* C22: for an invocation that returns n content items tool_call yields n
\* function-response parts, in the order of the items, each with the name of
\* the invocation and no id, also when the invocation carried one.
C22_PartPerItem ==
    [][(pc = "Calling" /\ pc' # "Failed")
       => LET call == fn_calls[fn_idx]
              items == returned'[Len(returned')]
              turn == contents'[Len(contents')]
          IN  /\ Len(contents') = Len(contents) + 1
              /\ Len(turn.parts) = Len(items)
              /\ \A k \in 1..Len(items) :
                    /\ turn.parts[k].kind = "FunctionResponse"
                    /\ turn.parts[k].name = call.name
                    /\ turn.parts[k].id = None
                    /\ turn.parts[k].response = items[k].fields
      ]_vars

\* a call that carried an id was answered with two different items
C22_Witness ==
    /\ pc = "Sending" /\ nposts = 2
    /\ Len(returned) = 1 /\ Len(returned[1]) = 2
    /\ returned[1][1] # returned[1][2]
    /\ fn_calls[1].id.some
    /\ Len(contents[Len(contents)].parts) = 2

\* the send failed with the error of a collaborator
ToolFailed == pc = "Failed" /\ result = Err(MpcSdk)

\* C23: when an invocation fails during a dispatch cycle the send returns
\* the error of the collaborator; no later invocation of the batch runs, the
\* failed one is not run again, and the send issues no further request.
C23_ToolErrorEndsSend ==
    [][/\ pc = "Calling"
            => \/ pc' = "Failed" /\ result' = Err(MpcSdk) /\ awaiting' = {}
                  /\ UNCHANGED <<contents, fn_idx, nposts, returned, batches>>
               \/ Len(returned') = Len(returned) + 1
       /\ ToolFailed
            => /\ awaiting = {}
               /\ UNCHANGED <<fn_idx, fn_calls, returned, batches>>
               /\ nposts' # nposts => nposts' = 1 /\ sends_left' = sends_left - 1
      ]_vars

\* the first of two invocations failed and the send has returned its error
C23_Witness ==
    /\ ToolFailed
    /\ fn_idx = 1 /\ Len(fn_calls) = 2
    /\ returned = <<>>
    /\ nposts = 1

\* the send failed with the error of the transport
TransportFailed == pc = "Failed" /\ result = Err(Reqwest)

\* C24: a transport failure is never retried: the send returns the error of
\* the transport, issues no other request and invokes no tool, and the
\* requests one send issues are one more than its completed dispatch cycles.
C24_NoTransportRetry ==
    [][/\ pc = "Sending"
            => \/ /\ pc' = "Failed" /\ result' = Err(Reqwest) /\ awaiting' = {}
                  /\ UNCHANGED <<contents, nposts, batches, returned, cycles>>
               \/ /\ pc' = "Consolidating" /\ Len(batches') = nposts
                  /\ UNCHANGED <<nposts, cycles>>
       /\ TransportFailed
            => /\ awaiting = {}
               /\ UNCHANGED <<batches, returned, cycles>> \/ sends_left' = sends_left - 1
               /\ nposts' # nposts => nposts' = 1 /\ sends_left' = sends_left - 1
       /\ nposts' >= 1 => nposts' = 1 + cycles'
      ]_vars

\* the request after a completed dispatch cycle failed
C24_Witness ==
    /\ TransportFailed
    /\ nposts = 2 /\ cycles = 1
    /\ Len(batches) = 1

\* C26: every request handed to the transport carries the whole history as
\* it stands then, in order; the request after a dispatch cycle holds the
\* turns of the batch with the function calls and the turns answering them.
C26_RequestCarriesHistory ==
    \A a \in awaiting :
        a.op = "request"
        => /\ a.json.contents = contents
           /\ contents = h_call \o appended
           /\ appended[1] = user_turn.v
           /\ a.n > 1
                => LET d == Discovered(responses)
                   IN  /\ Len(d) >= 1 /\ Len(returned) = Len(d)
                       /\ a.json.contents =
                            h_merge \o TurnsUpTo(responses, Len(responses))
                                \o [n \in 1..Len(d) |-> Answer(d[n], returned[n])]

\* the request after a cycle of two answered calls is with the transport
C26_Witness ==
    \E a \in awaiting :
        /\ a.op = "request" /\ a.n = 2
        /\ Len(returned) = 2
        /\ returned[1] # <<>> /\ returned[2] # <<>>
        /\ Len(a.json.contents) = 4

\* C27: during a send, from the call until it returns, the declared tools,
\* the registration, the safety settings, the generation options and the
\* system instruction stay as they are and no configuration call runs (none
\* lists the tools of a collaborator): only the history changes.
C27_SendFrame ==
    [][(~AtRest \/ pc' = "Sending")
       => /\ UNCHANGED <<model, system_instruction, tools, safety_settings,
                         generation_config, mcps>>
          /\ cfg_left' = cfg_left
      ]_vars

\* a collaborator is awaited on a client with declared tools, the history
\* longer than at the call
C27_Witness ==
    /\ pc = "Calling"
    /\ tools # <<>> /\ mcps # <<>>
    /\ Len(contents) >= Len(h_call) + 2

\* the parts of the turn a send operation builds from its arguments
SentParts ==
    {<<Text(t)>> : t \in Texts}
    \cup {<<InlineData(b)>> : b \in Blobs}
    \cup {<<FileDataPart(d)>> : d \in FileDatas}
    \cup {<<Text(t), InlineData(b)>> : t \in Texts, b \in Blobs}

\* C28: each send operation appends exactly one turn of role user before
\* the first request is issued, that request carrying it, and the send then
\* returns only with a batch or an error; send_image_bytes with a message
\* puts the text part, then the image part, in that one turn.
C28_OneUserTurn ==
    [][/\ (AtRest /\ pc' = "Sending")
            => /\ Len(contents') = Len(contents) + 1
               /\ IsPrefix(contents, contents')
               /\ contents'[Len(contents')].role = User
               /\ contents'[Len(contents')].parts \in SentParts
               /\ nposts' = 1
               /\ \E a \in awaiting' :
                    /\ awaiting' = {a}
                    /\ a.op = "request" /\ a.n = 1
                    /\ a.json.contents = contents'
       /\ (~AtRest /\ pc' \in {"Idle", "Failed"})
            => \/ pc' = "Idle" /\ result'.status = "ok" /\ result'.v = responses'
               \/ pc' = "Failed" /\ result'.status = "err"
      ]_vars

\* send_image_bytes was called with a message: one turn, text then image
C28_Witness ==
    /\ pc = "Sending" /\ nposts = 1
    /\ contents = Append(h_call, user_turn.v)
    /\ Len(user_turn.v.parts) = 2
    /\ user_turn.v.parts[1].kind = "Text"
    /\ user_turn.v.parts[2].kind = "InlineData"

\* the send in flight, or returned last, was called on a client whose
\* previous send had failed with NotFound
AfterNotFound ==
    /\ nposts >= 1
    /\ h_result.status = "err" /\ h_result.e.kind = "NotFound"

\* C29: a NotFound raised for an invocation does not end the conversation:
\* after a send failed with NotFound the client accepts a further send,
\* which runs on the retained history, the turn with the unanswered call
\* included, and can complete with a batch.
C29_NotFoundNotTerminal ==
    /\ (NotFoundFailed /\ sends_left > 0) => ENABLED send_text
    /\ AfterNotFound
        => /\ contents = h_call \o appended
           /\ appended # <<>> /\ appended[1] = user_turn.v
           /\ \E k \in 1..Len(h_call) :
                /\ h_call[k].role = Model
                /\ \E p \in 1..Len(h_call[k].parts) :
                        h_call[k].parts[p].kind = "FunctionCall"
           /\ \A a \in awaiting : a.op = "request" /\ a.json.contents = contents
           /\ pc = "Idle" => result = Ok(responses)

\* the send after the one that failed with NotFound returned a batch with a
\* turn of the model
C29_Witness ==
    /\ AfterNotFound
    /\ pc = "Idle" /\ result.status = "ok"
    /\ Len(contents) > Len(h_call) + 1
    /\ contents[Len(contents)].role = Model

\* C30: a send abandoned while it awaits the transport or a collaborator
\* leaves the history it was called with followed by whole turns: every
\* step of a send keeps the turns the history holds as they are, and adds
\* turns with all their parts (the user turn, contents of candidates, the
\* answer to one call).
C30_WholeTurns ==
    [][(~AtRest \/ pc' = "Sending")
       => /\ IsPrefix(contents, contents')
          /\ LET added == Suffix(contents, contents')
             IN  IF AtRest
                 THEN added = <<user_turn'.v>> /\ user_turn'.v.parts \in SentParts
                 ELSE IF pc = "Consolidating"
                 THEN IsPrefix(added, TurnsUpTo(raw, Len(raw)))
                 ELSE IF pc = "Calling" /\ pc' # "Failed"
                 THEN added = <<Answer(fn_calls[fn_idx], returned'[Len(returned')])>>
                 ELSE added = <<>>
          /\ pc' \in {"Sending", "Calling"} => contents' = h_call' \o appended'
      ]_vars

\* the second collaborator of a cycle is awaited, the first answered by a
\* turn of two parts
C30_Witness ==
    /\ pc = "Calling" /\ fn_idx = 2
    /\ Len(returned) = 1 /\ Len(returned[1]) = 2
    /\ contents = h_tools \o <<Answer(fn_calls[1], returned[1])>>
    /\ Len(h_tools) > Len(h_call) + 1

\* the positions <<turn, part>> of the parts of a kind in the turns of a role
PartsAt(cts, role, kind) ==
    {<<k, p>> \in (1..Len(cts)) \X (1..MaxWeight) :
        /\ cts[k].role = role
        /\ p <= Len(cts[k].parts)
        /\ cts[k].parts[p].kind = kind}

\* C34: in every request handed to the transport, after any sequence of
\* sends, failed ones included, each function-call part of a model turn is
\* answered by a function-response part of the same name in a later user
\* turn.
C34_CallsAnswered ==
    \A a \in awaiting :
        a.op = "request"
        => LET cts == a.json.contents
           IN  \A c \in PartsAt(cts, Model, "FunctionCall") :
                 \E r \in PartsAt(cts, User, "FunctionResponse") :
                    /\ r[1] > c[1]
                    /\ cts[r[1]].parts[r[2]].name = cts[c[1]].parts[c[2]].name

\* C35: every turn of the history has at least one part, after any sequence
\* of sends, also when a collaborator returned an empty content list.
C35_NoEmptyTurn == \A k \in 1..Len(contents) : contents[k].parts # <<>>

\* the registered collaborators that list a tool of this name
ListedBy(name) ==
    {i \in 1..Len(mcps) :
        \E k \in 1..Len(list_tools(mcps[i])) : list_tools(mcps[i])[k].name = name}

\* C36: when two registered collaborators declare a tool of the same name,
\* every invocation of that name goes to the one with the lowest
\* registration index, never to the later one.
C36_LowestIndex ==
    \A a \in awaiting :
        (a.op = "call_tool" /\ Cardinality(ListedBy(a.params.name)) >= 2)
        => \A i \in ListedBy(a.params.name) : a.index <= i

\* C32: consolidating an empty fragment list is a no-op: merge_response
\* returns an empty batch and leaves the history as it is, however often it
\* is repeated.
C32_EmptyBatchNoOp ==
    [][/\ (pc = "Consolidating" /\ raw = <<>>)
            => /\ contents' = contents
               /\ responses' = <<>>
               /\ pc' = "CheckingTools"
       /\ LET once == merge_response(contents', <<>>)
              twice == merge_response(once.contents, <<>>)
          IN  /\ once = [contents |-> contents', ret |-> Ok(<<>>)]
              /\ twice = once
      ]_vars

\* the second send of a conversation consolidated an empty batch
C32_Witness ==
    /\ pc = "CheckingTools" /\ raw = <<>> /\ responses = <<>>
    /\ contents = h_merge
    /\ Len(h_call) >= 2

\* C37: with_tools_client on the image-generation model returns
\* UnsupportedConfig and leaves the client as it was: registration, declared
\* tools and history are those before the call, and no collaborator is
\* asked to list its tools.
C37_UnsupportedUnchanged ==
    [][/\ (cfg_left' # cfg_left /\ result' = Err(UnsupportedConfig))
            => /\ model = "Gemini20FlashExpImageGen"
               /\ UNCHANGED <<model, contents, system_instruction, tools,
                              safety_settings, generation_config, mcps>>
               /\ asked' = <<>>
               /\ awaiting' = {}
       /\ model = "Gemini20FlashExpImageGen"
            => mcps' = <<>> /\ tools' = <<>> /\ asked' = <<>>
      ]_vars

\* the call was made on a client with a history and was refused
C37_Witness ==
    /\ pc = "Idle" /\ result = Err(UnsupportedConfig)
    /\ Len(contents) >= 2
    /\ mcps = <<>> /\ tools = <<>> /\ asked = <<>>

\* the text parts of a batch, each by fragment, candidate and part
TextsIn(b) ==
    {x \in (1..Len(b)) \X (1..MaxTextWeight) \X (1..MaxTextWeight) :
        /\ x[2] <= Len(b[x[1]].candidates)
        /\ x[3] <= Len(b[x[1]].candidates[x[2]].content.parts)
        /\ b[x[1]].candidates[x[2]].content.parts[x[3]].kind = "Text"}

\* C33: Responses::text of the batch a send returned is the texts of its text
\* parts joined in fragment, candidate, part order, every other kind of part
\* left out, and it is None exactly when the batch has no text part or only
\* empty ones.
C33_TextSquashed ==
    squashed.status = "ok" =>
        LET b == result.v
            at == TextsIn(b)
            nth(n) == CHOOSE x \in at : Cardinality({y \in at : Before(y, x)}) = n - 1
            txt(x) == b[x[1]].candidates[x[2]].content.parts[x[3]].text
            RECURSIVE joined(_)
            joined(n) == IF n = 0 THEN "" ELSE joined(n - 1) \o txt(nth(n))
            whole == joined(Cardinality(at))
        IN  /\ result.status = "ok"
            /\ squashed.v = (IF whole = "" THEN None ELSE Some(whole))
            /\ squashed.v = None <=> \A x \in at : txt(x) = ""

\* the texts of two candidates, an empty text among them, were squashed
C33_Witness ==
    /\ squashed = Ok(Some("Hi!"))
    /\ \E x, y, z \in TextsIn(result.v) :
           LET txt(u) == result.v[u[1]].candidates[u[2]].content.parts[u[3]].text
           IN  /\ txt(x) = "Hi" /\ txt(y) = "!" /\ txt(z) = ""
               /\ x[2] < y[2]

\* the client value the operations are called on, field by field
Held ==
    [model |-> model, contents |-> contents, system_instruction |-> system_instruction,
     tools |-> tools, safety_settings |-> safety_settings,
     generation_config |-> generation_config, mcps |-> mcps]

\* C31: two client values share no conversation state: every step of an
\* operation on one of them (a configuration change, a send and what runs
\* inside it) leaves the other as it was, with its turns, its declared tools
\* and its registered collaborators; the second value changes only when the
\* caller binds it, to a complete copy of the first, or turns to it, and then
\* the two values are exchanged as they are.
C31_OwnState ==
    [][/\ (left' # left \/ flight' # flight \/ awaiting' # awaiting) => other' = other
       /\ other' # other =>
              \/ Held' = Held /\ other' = Some(Held)
              \/ other.some /\ Held' = other.v /\ other' = Some(Held)]_vars

\* both values were operated on after the second was bound: one of them has
\* turns and no collaborator, the other a collaborator, declared tools and
\* turns of its own
C31_Witness ==
    /\ other.some
    /\ Len(other.v.contents) >= 2 /\ other.v.mcps = <<>> /\ other.v.tools = <<>>
    /\ Len(contents) >= 2 /\ mcps # <<>> /\ tools # <<>>
    /\ contents # other.v.contents
    /\ pc = "Idle"

====
